---- MODULE Spec2Model ----
(***************************************************************************)
(* Model of falkon's kernel dispatch layer:                                *)
(*   falkon/kernels/kernel.py         Kernel: validators, mm / mmv / dmmv, *)
(*                                    backend resolution                   *)
(*   falkon/kernels/keops_helpers.py  should_use_keops, KeopsKernelMixin   *)
(*                                                                         *)
(* Python values are records carrying their class in the field cls.  An    *)
(* exception is a result record whose field exc names the exception class  *)
(* and whose field msg names the raise statement that produced it.         *)
(***************************************************************************)
EXTENDS Naturals, Sequences, FiniteSets

VARIABLES
    X1, X2,         \* the two primary operands
    v, w,           \* the vector operands the caller holds
    out,            \* the output buffer the caller holds
    opt,            \* the FalkonOptions record the caller holds
    selfParams,     \* Kernel.params, the kernel's default policy
    keopsWorks,     \* whether pykeops is installed and usable in this process
    last            \* what the last operation executed did and returned

vars == <<X1, X2, v, w, out, opt, selfParams, keopsWorks, last>>

(***************************************************************************)
(* Bounds of the model.                                                    *)
(***************************************************************************)
\* Row and column counts of the operands range over 1..MaxDim.
MaxDim == 2
\* Feature dimensions range over KeopsMaxDim-DimSlack .. KeopsMaxDim+DimSlack.
DimSlack == 1

\* keops_helpers.py:47, the feature dimension above which KeOps is not used.
KeopsMaxDim == 50

(***************************************************************************)
(* Python values.                                                          *)
(***************************************************************************)
None == [cls |-> "NoneType"]

Tensor(shape, dtype, device) ==
    [cls |-> "Tensor", shape |-> shape, dtype |-> dtype, device |-> device,
     is_sparse |-> FALSE]

SparseTensor(shape, dtype, device) ==
    [cls |-> "SparseTensor", shape |-> shape, dtype |-> dtype, device |-> device,
     is_sparse |-> FALSE]

\* A torch.Tensor with a sparse layout.
TorchSparse(shape, dtype, device) ==
    [cls |-> "Tensor", shape |-> shape, dtype |-> dtype, device |-> device,
     is_sparse |-> TRUE]

FalkonOptions(use_cpu, keops_active) ==
    [use_cpu |-> use_cpu, keops_active |-> keops_active]

\* t.dim()
Dim(t) == Len(t.shape)

\* The reshape with its axes swapped: a single-row matrix.
ReshapeRow(t) == [t EXCEPT !.shape = <<1, t.shape[1]>>]

\* t.reshape((-1, 1)) of a rank-1 tensor: a single-column matrix
ReshapeColumn(t) == [t EXCEPT !.shape = <<t.shape[1], 1>>]

(***************************************************************************)
(* Results.  checks lists the checks evaluated, in order; warnings the     *)
(* warnings emitted; backend the backend invocations, in order.            *)
(***************************************************************************)
NoCall ==
    [op |-> "none", exc |-> "none", msg |-> "", checks |-> <<>>,
     warnings |-> <<>>, backend |-> <<>>, params |-> None,
     opt_passed |-> FALSE, args |-> <<>>, ret |-> None]

\* The outcome of a validator: the exception raised, or the arguments it returns.
Raised(exc, msg, order, k) ==
    [exc |-> exc, msg |-> msg, checks |-> SubSeq(order, 1, k), args |-> <<>>]

Passed(order, args) ==
    [exc |-> "none", msg |-> "", checks |-> order, args |-> args]

\* What a validator called on its own leaves behind.
ValidatorResult(op, r) ==
    [NoCall EXCEPT !.op = op, !.exc = r.exc, !.msg = r.msg,
                   !.checks = r.checks, !.args = r.args]

(***************************************************************************)
(* falkon.utils.helpers, falkon.utils.switches: not part of the sources at *)
(* hand, modelled from the specification.                                  *)
(***************************************************************************)
Present(ts) == {i \in 1..Len(ts) : ts[i] # None}

\* check_same_dtype(*args): every argument that is not None has one dtype
check_same_dtype(ts) ==
    \A i, j \in Present(ts) : ts[i].dtype = ts[j].dtype

\* check_same_device(*args): every argument that is not None is on one device
check_same_device(ts) ==
    \A i, j \in Present(ts) : ts[i].device = ts[j].device

\* check_sparse(*args): per argument, whether it is a SparseTensor
check_sparse(ts) == [i \in 1..Len(ts) |-> ts[i].cls = "SparseTensor"]

\* decide_cuda(opt): the preferred backend is the GPU unless use_cpu is set
decide_cuda(o) == ~o.use_cpu

\* decide_keops(opt): KeOps is usable and keops_active is not "no"
decide_keops(o) == keopsWorks /\ o.keops_active # "no"

(***************************************************************************)
(* Kernel._check_dmmv_dimensions                                           *)
(***************************************************************************)
DmmvChecks ==
    <<"v_or_w", "X1.dim", "X2.dim", "v.dim", "w.dim",
      "out.shape", "v.shape", "w.shape", "dtype">>

\* kernel.py:28-61, what follows the test that v or w is given
check_dmmv_operands(a1, a2, av, aw, aout) ==
    IF Dim(a1) # 2 THEN Raised("ValueError", "X1.dim", DmmvChecks, 2)
    ELSE IF Dim(a2) # 2 THEN Raised("ValueError", "X2.dim", DmmvChecks, 3)
    ELSE
    LET v1 == IF av # None /\ Dim(av) = 1 THEN ReshapeColumn(av) ELSE av IN
    IF v1 # None /\ Dim(v1) # 2 THEN Raised("ValueError", "v.dim", DmmvChecks, 4)
    ELSE
    LET w1 == IF aw # None /\ Dim(aw) = 1 THEN ReshapeColumn(aw) ELSE aw IN
    IF w1 # None /\ Dim(w1) # 2 THEN Raised("ValueError", "w.dim", DmmvChecks, 5)
    ELSE
    LET T == IF v1 # None THEN v1.shape[2] ELSE w1.shape[2]
        M == a2.shape[1]
    IN
    IF aout # None /\ aout.shape # <<M, T>>
    THEN Raised("ValueError", "out.shape", DmmvChecks, 6)
    ELSE IF v1 # None /\ v1.shape # <<a2.shape[1], T>>
    THEN Raised("ValueError", "v.shape", DmmvChecks, 7)
    ELSE IF w1 # None /\ w1.shape # <<a1.shape[1], T>>
    THEN Raised("ValueError", "w.shape", DmmvChecks, 8)
    ELSE IF ~check_same_dtype(<<a1, a2, v1, w1, aout>>)
    THEN Raised("TypeError", "dtype", DmmvChecks, 9)
    ELSE Passed(DmmvChecks, <<a1, a2, v1, w1, aout>>)

\* _check_dmmv_dimensions testing the ranks of X1 and X2 before the presence of
\* v and w.
check_dmmv_dimensions_ranks_first(a1, a2, av, aw, aout) ==
    IF Dim(a1) # 2 THEN Raised("ValueError", "X1.dim", <<"X1.dim">>, 1)
    ELSE IF Dim(a2) # 2 THEN Raised("ValueError", "X2.dim", <<"X1.dim", "X2.dim">>, 2)
    ELSE IF av = None /\ aw = None
    THEN Raised("ValueError", "v_or_w", <<"X1.dim", "X2.dim", "v_or_w">>, 3)
    ELSE check_dmmv_operands(a1, a2, av, aw, aout)

check_dmmv_dimensions(a1, a2, av, aw, aout) ==
    IF av = None /\ aw = None
    THEN Raised("ValueError", "v_or_w", DmmvChecks, 1)
    ELSE check_dmmv_operands(a1, a2, av, aw, aout)

(***************************************************************************)
(* Kernel._check_mmv_dimensions, Kernel._check_mm_dimensions               *)
(***************************************************************************)
MmvChecks == <<"X1.dim", "X2.dim", "v.dim", "out.shape", "v.shape", "dtype">>

check_mmv_dimensions(a1, a2, av, aout) ==
    IF Dim(a1) # 2 THEN Raised("ValueError", "X1.dim", MmvChecks, 1)
    ELSE IF Dim(a2) # 2 THEN Raised("ValueError", "X2.dim", MmvChecks, 2)
    ELSE
    LET v1 == IF Dim(av) = 1 THEN ReshapeColumn(av) ELSE av IN
    IF Dim(v1) # 2 THEN Raised("ValueError", "v.dim", MmvChecks, 3)
    ELSE IF aout # None /\ aout.shape # <<a1.shape[1], v1.shape[2]>>
    THEN Raised("ValueError", "out.shape", MmvChecks, 4)
    ELSE IF v1.shape # <<a2.shape[1], v1.shape[2]>>
    THEN Raised("ValueError", "v.shape", MmvChecks, 5)
    ELSE IF ~check_same_dtype(<<a1, a2, v1, aout>>)
    THEN Raised("TypeError", "dtype", MmvChecks, 6)
    ELSE Passed(MmvChecks, <<a1, a2, v1, aout>>)

MmChecks == <<"X1.dim", "X2.dim", "out.shape", "dtype">>

check_mm_dimensions(a1, a2, aout) ==
    IF Dim(a1) # 2 THEN Raised("ValueError", "X1.dim", MmChecks, 1)
    ELSE IF Dim(a2) # 2 THEN Raised("ValueError", "X2.dim", MmChecks, 2)
    ELSE
    LET N == a1.shape[1]
        M == a2.shape[1]
    IN
    IF aout # None /\ aout.shape # <<N, M>>
    THEN Raised("ValueError", "out.shape", MmChecks, 3)
    ELSE IF ~check_same_dtype(<<a1, a2, aout>>)
    THEN Raised("TypeError", "dtype", MmChecks, 4)
    ELSE Passed(MmChecks, <<a1, a2, aout>>)

(***************************************************************************)
(* Kernel._check_device_properties                                         *)
(***************************************************************************)
\* _check_device_properties that never raises.
check_device_properties_never_raises(ts) == Passed(<<"device">>, ts)

check_device_properties(ts) ==
    IF ~check_same_device(ts)
    THEN Raised("RuntimeError", "device", <<"device">>, 1)
    ELSE Passed(<<"device">>, ts)

(***************************************************************************)
(* The per-call policy: params = self.params, or, when opt is given,       *)
(* dataclasses.replace(self.params, **dataclasses.asdict(opt)).            *)
(***************************************************************************)
\* dataclasses.asdict(o): every field of o with its value
asdict(o) == o

\* A merge that takes from changes only the fields set away from their defaults.
dataclasses_replace_set_fields_only(obj, changes) ==
    [f \in DOMAIN obj |->
        IF f \in DOMAIN changes /\ changes[f] # FalkonOptions(FALSE, "auto")[f]
        THEN changes[f] ELSE obj[f]]

\* dataclasses.replace(obj, **changes): a new object, obj with the changed fields
dataclasses_replace(obj, changes) ==
    [f \in DOMAIN obj |-> IF f \in DOMAIN changes THEN changes[f] ELSE obj[f]]

\* The merge stored back into self.params.
call_params_in_place(self_params, o) ==
    LET merged == IF o # None THEN dataclasses_replace(self_params, asdict(o))
                  ELSE self_params
    IN [params |-> merged, self_params |-> merged, opt |-> o]

\* The local params of a call, with self.params and the caller's opt as the call
\* leaves them.
call_params(self_params, o) ==
    [params |-> IF o # None THEN dataclasses_replace(self_params, asdict(o))
                ELSE self_params,
     self_params |-> self_params,
     opt |-> o]

(***************************************************************************)
(* Backend resolution: Kernel._decide_mm_impl, _decide_mmv_impl,           *)
(* _decide_dmmv_impl.                                                      *)
(***************************************************************************)
all(s) == \A i \in DOMAIN s : s[i]
any(s) == \E i \in DOMAIN s : s[i]

Resolved(impl, warnings) ==
    [exc |-> "none", msg |-> "", checks |-> <<"sparsity">>,
     warnings |-> warnings, impl |-> impl]

ResolveFailed ==
    [exc |-> "ValueError", msg |-> "sparsity", checks |-> <<"sparsity">>,
     warnings |-> <<>>, impl |-> "none"]

\* _decide_mm_impl without the sparsity test.
decide_mm_impl_no_sparsity_test(a1, a2, o) ==
    LET use_cuda == decide_cuda(o)
        sparsity == check_sparse(<<a1, a2>>)
        override == a1.device = "cuda" /\ ~use_cuda
        warnings == IF override THEN <<"kernel">> ELSE <<>>
    IN
    IF use_cuda \/ override
    THEN IF all(sparsity) THEN Resolved("fmm_cuda_sparse", warnings)
         ELSE Resolved("fmm_cuda", warnings)
    ELSE IF all(sparsity) THEN Resolved("fmm_cpu_sparse", warnings)
         ELSE Resolved("fmm_cpu", warnings)

decide_mm_impl(a1, a2, o) ==
    LET use_cuda == decide_cuda(o)
        sparsity == check_sparse(<<a1, a2>>)
    IN
    IF ~all(sparsity) /\ any(sparsity) THEN ResolveFailed
    ELSE
    LET override == a1.device = "cuda" /\ ~use_cuda
        warnings == IF override THEN <<"kernel">> ELSE <<>>
    IN
    IF use_cuda \/ override
    THEN IF all(sparsity) THEN Resolved("fmm_cuda_sparse", warnings)
         ELSE Resolved("fmm_cuda", warnings)
    ELSE IF all(sparsity) THEN Resolved("fmm_cpu_sparse", warnings)
         ELSE Resolved("fmm_cpu", warnings)

\* _decide_mmv_impl without the override for GPU operands.
decide_mmv_impl_no_override(a1, a2, av, o) ==
    LET use_cuda == decide_cuda(o)
        sparsity == check_sparse(<<a1, a2>>)
    IN
    IF ~all(sparsity) /\ any(sparsity) THEN ResolveFailed
    ELSE IF use_cuda
    THEN IF all(sparsity) THEN Resolved("fmmv_cuda_sparse", <<>>)
         ELSE Resolved("fmmv_cuda", <<>>)
    ELSE IF all(sparsity) THEN Resolved("fmmv_cpu_sparse", <<>>)
         ELSE Resolved("fmmv_cpu", <<>>)

decide_mmv_impl(a1, a2, av, o) ==
    LET use_cuda == decide_cuda(o)
        sparsity == check_sparse(<<a1, a2>>)
    IN
    IF ~all(sparsity) /\ any(sparsity) THEN ResolveFailed
    ELSE
    LET override == a1.device = "cuda" /\ ~use_cuda
        warnings == IF override THEN <<"kernel-vector product">> ELSE <<>>
    IN
    IF use_cuda \/ override
    THEN IF all(sparsity) THEN Resolved("fmmv_cuda_sparse", warnings)
         ELSE Resolved("fmmv_cuda", warnings)
    ELSE IF all(sparsity) THEN Resolved("fmmv_cpu_sparse", warnings)
         ELSE Resolved("fmmv_cpu", warnings)

decide_dmmv_impl(a1, a2, av, aw, o) ==
    LET use_cuda == decide_cuda(o)
        sparsity == check_sparse(<<a1, a2>>)
    IN
    IF ~all(sparsity) /\ any(sparsity) THEN ResolveFailed
    ELSE
    LET override == a1.device = "cuda" /\ ~use_cuda
        warnings == IF override THEN <<"kernel-vector double product">> ELSE <<>>
    IN
    IF use_cuda \/ override
    THEN IF all(sparsity) THEN Resolved("fdmmv_cuda_sparse", warnings)
         ELSE Resolved("fdmmv_cuda", warnings)
    ELSE IF all(sparsity) THEN Resolved("fdmmv_cpu_sparse", warnings)
         ELSE Resolved("fdmmv_cpu", warnings)

(***************************************************************************)
(* The public operations: Kernel.__call__, Kernel.mmv, Kernel.dmmv.  Each  *)
(* yields what the call did (res) and the kernel's params and the caller's *)
(* opt as the call leaves them.                                            *)
(***************************************************************************)
\* The call ends in an exception.
Failed(op, o, exc, msg, checks, params, self_params) ==
    [res |-> [NoCall EXCEPT !.op = op, !.exc = exc, !.msg = msg,
                            !.checks = checks, !.params = params,
                            !.opt_passed = (o # None)],
     self_params |-> self_params,
     opt |-> o]

\* The call invokes the backend fn and returns what it returns.
Invoked(op, o, checks, m, r, args, aout) ==
    [res |-> [NoCall EXCEPT !.op = op, !.checks = checks, !.params = m.params,
                            !.opt_passed = (o # None),
                            !.warnings = r.warnings,
                            !.args = args,
                            !.backend = <<[fn |-> r.impl, args |-> args,
                                           out |-> aout, opt |-> m.params]>>,
                            !.ret = [cls |-> "Result", of |-> r.impl]],
     self_params |-> m.self_params,
     opt |-> m.opt]

Kernel_call(self_params, a1, a2, aout, o) ==
    LET c == check_mm_dimensions(a1, a2, aout) IN
    IF c.exc # "none"
    THEN Failed("mm", o, c.exc, c.msg, c.checks, None, self_params)
    ELSE
    LET d == check_device_properties(c.args) IN
    IF d.exc # "none"
    THEN Failed("mm", o, d.exc, d.msg, c.checks \o d.checks, None, self_params)
    ELSE
    LET m == call_params(self_params, o)
        r == decide_mm_impl(c.args[1], c.args[2], m.params)
        checks == c.checks \o d.checks \o r.checks
    IN
    IF r.exc # "none"
    THEN Failed("mm", m.opt, r.exc, r.msg, checks, m.params, m.self_params)
    ELSE Invoked("mm", o, checks, m, r, <<c.args[1], c.args[2]>>, c.args[3])

Kernel_mmv(self_params, a1, a2, av, aout, o) ==
    LET c == check_mmv_dimensions(a1, a2, av, aout) IN
    IF c.exc # "none"
    THEN Failed("mmv", o, c.exc, c.msg, c.checks, None, self_params)
    ELSE
    LET d == check_device_properties(c.args) IN
    IF d.exc # "none"
    THEN Failed("mmv", o, d.exc, d.msg, c.checks \o d.checks, None, self_params)
    ELSE
    LET m == call_params(self_params, o)
        r == decide_mmv_impl(c.args[1], c.args[2], c.args[3], m.params)
        checks == c.checks \o d.checks \o r.checks
    IN
    IF r.exc # "none"
    THEN Failed("mmv", m.opt, r.exc, r.msg, checks, m.params, m.self_params)
    ELSE Invoked("mmv", o, checks, m, r,
                 <<c.args[1], c.args[2], c.args[3]>>, c.args[4])

Kernel_dmmv(self_params, a1, a2, av, aw, aout, o) ==
    LET c == check_dmmv_dimensions(a1, a2, av, aw, aout) IN
    IF c.exc # "none"
    THEN Failed("dmmv", o, c.exc, c.msg, c.checks, None, self_params)
    ELSE
    LET d == check_device_properties(c.args) IN
    IF d.exc # "none"
    THEN Failed("dmmv", o, d.exc, d.msg, c.checks \o d.checks, None, self_params)
    ELSE
    LET m == call_params(self_params, o)
        r == decide_dmmv_impl(c.args[1], c.args[2], c.args[3], c.args[4], m.params)
        checks == c.checks \o d.checks \o r.checks
    IN
    IF r.exc # "none"
    THEN Failed("dmmv", m.opt, r.exc, r.msg, checks, m.params, m.self_params)
    ELSE Invoked("dmmv", o, checks, m, r,
                 <<c.args[1], c.args[2], c.args[3], c.args[4]>>, c.args[5])

(***************************************************************************)
(* keops_helpers.py: should_use_keops and KeopsKernelMixin.                *)
(***************************************************************************)
\* should_use_keops with the threshold test off by one (>= for >).
should_use_keops_off_by_one(T1, T2, o) ==
    IF T1.cls # "Tensor" \/ T2.cls # "Tensor" \/ T1.is_sparse \/ T2.is_sparse
    THEN FALSE
    ELSE IF ~decide_keops(o) THEN FALSE
    ELSE IF T1.shape[2] >= KeopsMaxDim /\ ~(o.keops_active = "force") THEN FALSE
    ELSE TRUE

should_use_keops(T1, T2, o) ==
    IF T1.cls # "Tensor" \/ T2.cls # "Tensor" \/ T1.is_sparse \/ T2.is_sparse
    THEN FALSE
    ELSE IF ~decide_keops(o) THEN FALSE
    ELSE IF T1.shape[2] > KeopsMaxDim /\ ~(o.keops_active = "force") THEN FALSE
    ELSE TRUE

keops_can_handle_mm(a1, a2, o) == FALSE

keops_can_handle_mmv(a1, a2, av, o) == should_use_keops(a1, a2, o)

\* keops_can_handle_dmmv testing the first argument ordering only.
keops_can_handle_dmmv_one_order(a1, a2, av, aw, o) ==
    keops_can_handle_mmv(a1, a2, av, o)

keops_can_handle_dmmv(a1, a2, av, aw, o) ==
    keops_can_handle_mmv(a1, a2, av, o) /\ keops_can_handle_mmv(a2, a1, aw, o)

\* What the caller's mmv_fn returns: the product of K(a, b) with vec, written
\* into the buffer into when one is given.
MmvResult(a, b, vec, into) ==
    [cls |-> "mmv", a |-> a, b |-> b, v |-> vec, out |-> into]

\* One invocation of mmv_fn, as the helper makes it.
MmvCall(a, b, vec, kernel, into, o) ==
    [a |-> a, b |-> b, v |-> vec, kernel |-> kernel, out |-> into, opt |-> o]

\* t.add_(x): t with x added to it in place
AddInPlace(t, x) == [cls |-> "add", to |-> t, added |-> x]

\* keops_dmmv_helper handing the caller's out to the first stage as well.
keops_dmmv_helper_out_in_stage1(a1, a2, av, aw, kernel, aout, o) ==
    IF av # None /\ aw # None
    THEN LET out1 == AddInPlace(MmvResult(a1, a2, av, aout), aw) IN
         [calls |-> <<MmvCall(a1, a2, av, kernel, aout, o),
                      MmvCall(a2, a1, out1, kernel, aout, o)>>,
          ret |-> MmvResult(a2, a1, out1, aout)]
    ELSE IF av = None
    THEN [calls |-> <<MmvCall(a2, a1, aw, kernel, aout, o)>>,
          ret |-> MmvResult(a2, a1, aw, aout)]
    ELSE LET out1 == MmvResult(a1, a2, av, aout) IN
         [calls |-> <<MmvCall(a1, a2, av, kernel, aout, o),
                      MmvCall(a2, a1, out1, kernel, aout, o)>>,
          ret |-> MmvResult(a2, a1, out1, aout)]

\* The calls of mmv_fn the helper makes, in order, and what it returns.
keops_dmmv_helper(a1, a2, av, aw, kernel, aout, o) ==
    IF av # None /\ aw # None
    THEN LET out1 == AddInPlace(MmvResult(a1, a2, av, None), aw) IN
         [calls |-> <<MmvCall(a1, a2, av, kernel, None, o),
                      MmvCall(a2, a1, out1, kernel, aout, o)>>,
          ret |-> MmvResult(a2, a1, out1, aout)]
    ELSE IF av = None
    THEN [calls |-> <<MmvCall(a2, a1, aw, kernel, aout, o)>>,
          ret |-> MmvResult(a2, a1, aw, aout)]
    ELSE LET out1 == MmvResult(a1, a2, av, None) IN
         [calls |-> <<MmvCall(a1, a2, av, kernel, None, o),
                      MmvCall(a2, a1, out1, kernel, aout, o)>>,
          ret |-> MmvResult(a2, a1, out1, aout)]

(***************************************************************************)
(* Operand sets.                                                           *)
(***************************************************************************)
Dims == 1..MaxDim

\* Shapes of rank 1, 2 and 3.
Shapes1 == {<<n>> : n \in Dims}
Shapes2 == {<<n, m>> : n \in Dims, m \in Dims}
Shapes3 == {<<n, m, k>> : n \in Dims, m \in Dims, k \in Dims}

DTypes == {"float32", "float64"}

Devices == {"cpu", "cuda"}

\* A primary operand: a dense tensor of rank 1 or 2, or a sparse matrix.
Operands(dtypes) ==
    {Tensor(s, d, dev) :
        s \in {<<1>>} \cup {<<n, 1>> : n \in Dims}, d \in dtypes, dev \in Devices}
    \cup
    {SparseTensor(<<n, 1>>, d, dev) : n \in Dims, d \in dtypes, dev \in Devices}

\* A column block with n rows on the device dev, or no operand.
Columns(dev) == {None} \cup {Tensor(<<n, 1>>, "float32", dev) : n \in Dims}

(***************************************************************************)
(* The kernel's public operations, called in any order on one kernel with  *)
(* the operands the caller holds; each call passes opt or leaves it out.   *)
(***************************************************************************)
Init ==
    /\ X1 \in Operands({"float32"})
    /\ X2 \in Operands(DTypes)
    /\ v \in Columns(X1.device)
    /\ w \in Columns(X1.device)
    /\ out \in Columns(X1.device)
    /\ opt \in {FalkonOptions(b, "auto") : b \in BOOLEAN}
    /\ selfParams \in {FalkonOptions(b, "force") : b \in BOOLEAN}
    /\ keopsWorks = TRUE
    /\ last = NoCall

\* What a call leaves: its result, self.params, and the caller's opt record.
Effect(r, useOpt) ==
    /\ last' = r.res
    /\ selfParams' = r.self_params
    /\ opt' = IF useOpt THEN r.opt ELSE opt
    /\ UNCHANGED <<X1, X2, v, w, out, keopsWorks>>

Mm(useOpt) ==
    /\ Dim(X1) >= 1
    /\ Effect(Kernel_call(selfParams, X1, X2, out, IF useOpt THEN opt ELSE None),
              useOpt)

Mmv(useOpt) ==
    /\ v # None
    /\ Effect(Kernel_mmv(selfParams, X1, X2, v, out, IF useOpt THEN opt ELSE None),
              useOpt)

Dmmv(useOpt) ==
    /\ Dim(X1) >= 1
    /\ Effect(Kernel_dmmv(selfParams, X1, X2, v, w, out, IF useOpt THEN opt ELSE None),
              useOpt)

Next ==
    \E useOpt \in BOOLEAN : Mm(useOpt) \/ Mmv(useOpt) \/ Dmmv(useOpt)

Spec == Init /\ [][Next]_vars

(***************************************************************************)
(* The validator called on its own (it is a static method).                *)
(***************************************************************************)
InitShapes ==
    /\ X1 \in {Tensor(<<n, 1>>, "float32", "cpu") : n \in Dims}
    /\ X2 \in {Tensor(<<n, 1>>, d, "cpu") : n \in Dims, d \in DTypes}
    /\ v \in {None} \cup
             {Tensor(s, "float32", "cpu") : s \in Shapes1 \cup Shapes2 \cup Shapes3}
    /\ w \in {None} \cup
             {Tensor(s, "float32", "cpu") : s \in Shapes1 \cup Shapes2 \cup Shapes3}
    /\ out \in {None} \cup
               {Tensor(s, "float32", "cpu") : s \in {<<1>>} \cup Shapes2}
    /\ opt = FalkonOptions(FALSE, "auto")
    /\ selfParams = FalkonOptions(FALSE, "auto")
    /\ keopsWorks = TRUE
    /\ last = NoCall

CheckDmmvDimensions ==
    /\ last' = ValidatorResult("_check_dmmv_dimensions",
                               check_dmmv_dimensions(X1, X2, v, w, out))
    /\ UNCHANGED <<X1, X2, v, w, out, opt, selfParams, keopsWorks>>

NextShapes == CheckDmmvDimensions

SpecShapes == InitShapes /\ [][NextShapes]_vars

(***************************************************************************)
(* The KeOps helpers, called on dense and sparse operands around the       *)
(* feature-dimension threshold.                                            *)
(***************************************************************************)
FeatureDims == (KeopsMaxDim - DimSlack)..(KeopsMaxDim + DimSlack)

KeopsOperands ==
    UNION {{Tensor(<<1, d>>, "float32", "cpu"),
            TorchSparse(<<1, d>>, "float32", "cpu"),
            SparseTensor(<<1, d>>, "float32", "cpu")} : d \in FeatureDims}

InitKeops ==
    /\ X1 \in KeopsOperands
    /\ X2 \in KeopsOperands
    /\ v \in {None, Tensor(<<1, 1>>, "float32", "cpu")}
    /\ w \in {None, Tensor(<<1, 1>>, "float32", "cpu")}
    /\ out \in {None, Tensor(<<1, 1>>, "float32", "cpu")}
    /\ opt \in {FalkonOptions(FALSE, k) : k \in {"no", "auto", "force"}}
    /\ selfParams = FalkonOptions(FALSE, "auto")
    /\ keopsWorks \in BOOLEAN
    /\ last = NoCall

Answer(op, args, ret) ==
    /\ last' = [NoCall EXCEPT !.op = op, !.args = args, !.ret = ret]
    /\ UNCHANGED <<X1, X2, v, w, out, opt, selfParams, keopsWorks>>

ShouldUseKeops ==
    /\ Dim(X1) = 2
    /\ Answer("should_use_keops", <<X1, X2>>, should_use_keops(X1, X2, opt))

KeopsCanHandleMm ==
    /\ Dim(X1) = 2
    /\ Answer("keops_can_handle_mm", <<X1, X2>>, keops_can_handle_mm(X1, X2, opt))

KeopsCanHandleMmv ==
    /\ v # None
    /\ Answer("keops_can_handle_mmv", <<X1, X2, v>>,
              keops_can_handle_mmv(X1, X2, v, opt))

KeopsCanHandleDmmv ==
    /\ v # None \/ w # None
    /\ Answer("keops_can_handle_dmmv", <<X1, X2, v, w>>,
              keops_can_handle_dmmv(X1, X2, v, w, opt))

KeopsDmmvHelper ==
    LET r == keops_dmmv_helper(X1, X2, v, w, "kernel", out, opt) IN
    /\ last' = [NoCall EXCEPT !.op = "keops_dmmv_helper",
                              !.args = <<X1, X2, v, w>>,
                              !.backend = r.calls, !.ret = r.ret]
    /\ UNCHANGED <<X1, X2, v, w, out, opt, selfParams, keopsWorks>>

NextKeops ==
    \/ ShouldUseKeops
    \/ KeopsCanHandleMm
    \/ KeopsCanHandleMmv
    \/ KeopsCanHandleDmmv
    \/ KeopsDmmvHelper

SpecKeops == InitKeops /\ [][NextKeops]_vars

(***************************************************************************)
(* Properties of the KeOps helpers, checked under SpecKeops.               *)
(***************************************************************************)
\* An operand is dense: a torch.Tensor whose layout is not sparse.
IsDense(t) == t.cls = "Tensor" /\ ~t.is_sparse

\* The last mmv_fn call the helper made.
LastMmvCall == last.backend[Len(last.backend)]

\* C1: with at least one of v, w given, keops_dmmv_helper calls mmv_fn as the
\* decomposition prescribes.  Both given: mmv_fn(X1, X2, v) with no output
\* buffer, then w added to that result, then mmv_fn(X2, X1, sum) with the
\* caller's out.  v absent: the single call mmv_fn(X2, X1, w) with the caller's
\* out.  w absent: mmv_fn(X1, X2, v) with no output buffer, then
\* mmv_fn(X2, X1, result) with the caller's out, nothing added.  The helper
\* returns what the last mmv_fn call returns.
C1_Decomposition ==
    (last.op = "keops_dmmv_helper" /\ (v # None \/ w # None)) =>
        /\ (v # None /\ w # None) =>
              /\ Len(last.backend) = 2
              /\ last.backend[1] = MmvCall(X1, X2, v, "kernel", None, opt)
              /\ last.backend[2] =
                     MmvCall(X2, X1, AddInPlace(MmvResult(X1, X2, v, None), w),
                             "kernel", out, opt)
        /\ (v = None) =>
              /\ Len(last.backend) = 1
              /\ last.backend[1] = MmvCall(X2, X1, w, "kernel", out, opt)
        /\ (w = None) =>
              /\ Len(last.backend) = 2
              /\ last.backend[1] = MmvCall(X1, X2, v, "kernel", None, opt)
              /\ last.backend[2] =
                     MmvCall(X2, X1, MmvResult(X1, X2, v, None), "kernel", out, opt)
        /\ last.ret = MmvResult(LastMmvCall.a, LastMmvCall.b, LastMmvCall.v,
                                LastMmvCall.out)

\* The helper has run with v, w and an output buffer all given.
C1_Witness ==
    /\ last.op = "keops_dmmv_helper"
    /\ v # None /\ w # None /\ out # None
    /\ Len(last.backend) = 2

\* C5 as stated: for dense operands should_use_keops is true in mode "auto" at
\* feature dimension <= 50, false in mode "auto" above 50, true in mode "force"
\* at any dimension; it is false in mode "no" and when an operand is sparse.
C5_AsStated ==
    last.op = "should_use_keops" =>
        LET dense == IsDense(X1) /\ IsDense(X2)
            dim == X1.shape[2]
            mode == opt.keops_active
        IN
        /\ (dense /\ mode = "auto" /\ dim <= KeopsMaxDim) => last.ret = TRUE
        /\ (dense /\ mode = "auto" /\ dim > KeopsMaxDim) => last.ret = FALSE
        /\ (dense /\ mode = "force") => last.ret = TRUE
        /\ (mode = "no" \/ ~dense) => last.ret = FALSE

\* C5 amended: the same, given that decide_keops(opt) holds (KeOps is usable
\* and the mode is not "no"); when decide_keops(opt) is false should_use_keops
\* is false in every mode.
C5_GivenKeopsWorks ==
    last.op = "should_use_keops" =>
        LET dense == IsDense(X1) /\ IsDense(X2)
            dim == X1.shape[2]
            mode == opt.keops_active
        IN
        /\ (decide_keops(opt) /\ dense /\ mode = "auto" /\ dim <= KeopsMaxDim)
              => last.ret = TRUE
        /\ (dense /\ mode = "auto" /\ dim > KeopsMaxDim) => last.ret = FALSE
        /\ (decide_keops(opt) /\ dense /\ mode = "force") => last.ret = TRUE
        /\ (mode = "no" \/ ~dense \/ ~decide_keops(opt)) => last.ret = FALSE

\* should_use_keops has answered yes for dense operands exactly at the threshold.
C5_Witness ==
    /\ last.op = "should_use_keops"
    /\ IsDense(X1) /\ IsDense(X2)
    /\ X1.shape[2] = KeopsMaxDim
    /\ opt.keops_active = "auto"
    /\ last.ret = TRUE

\* The eligibility of one argument ordering, in the words of the claims.
Eligible(T1, T2) ==
    /\ IsDense(T1) /\ IsDense(T2)
    /\ keopsWorks /\ opt.keops_active # "no"
    /\ (T1.shape[2] <= KeopsMaxDim \/ opt.keops_active = "force")

\* C9: keops_can_handle_dmmv is true exactly when the eligibility check passes
\* for both orderings (X1, X2) and (X2, X1); it is false when either fails, and
\* swapping X1 with X2 and v with w does not change it.
C9_BothOrderings ==
    last.op = "keops_can_handle_dmmv" =>
        /\ last.ret = (Eligible(X1, X2) /\ Eligible(X2, X1))
        /\ last.ret = (should_use_keops(X1, X2, opt) /\ should_use_keops(X2, X1, opt))
        /\ last.ret = keops_can_handle_dmmv(X2, X1, w, v, opt)

\* The check has passed for (X1, X2) and failed for (X2, X1).
C9_Witness ==
    /\ last.op = "keops_can_handle_dmmv"
    /\ Eligible(X1, X2) /\ ~Eligible(X2, X1)
    /\ last.ret = FALSE

(***************************************************************************)
(* The contract of the public operations in the words of the claims.       *)
(***************************************************************************)
PublicOps == {"mm", "mmv", "dmmv"}

\* The operands of the last operation, and those of them that are given.
OperandsOf(op) ==
    CASE op = "mm" -> <<X1, X2, out>>
      [] op = "mmv" -> <<X1, X2, v, out>>
      [] op = "dmmv" -> <<X1, X2, v, w, out>>

Given(op) == {OperandsOf(op)[i] : i \in 1..Len(OperandsOf(op))} \ {None}

OneDType(op) == \A s, t \in Given(op) : s.dtype = t.dtype
OneDevice(op) == \A s, t \in Given(op) : s.device = t.device

\* Exactly one of X1, X2 is sparse.
SparsityMismatch == (X1.cls = "SparseTensor") # (X2.cls = "SparseTensor")

\* A vector operand as a matrix: a rank-1 vector is a single column.
ColShape(t) == IF Dim(t) = 1 THEN <<t.shape[1], 1>> ELSE t.shape
VecRankOK(t) == t = None \/ Dim(t) \in {1, 2}

\* The shared trailing dimension of dmmv: the columns of v, else those of w.
TrailingT == IF v # None THEN ColShape(v)[2] ELSE ColShape(w)[2]

\* The shapes dmmv accepts, for X1 and X2 of rank 2 and v or w given.
DmmvShapesAccepted ==
    /\ VecRankOK(v) /\ VecRankOK(w)
    /\ out # None => out.shape = <<X2.shape[1], TrailingT>>
    /\ v # None => ColShape(v) = <<X2.shape[1], TrailingT>>
    /\ w # None => ColShape(w) = <<X1.shape[1], TrailingT>>

ShapesValid(op) ==
    /\ Dim(X1) = 2 /\ Dim(X2) = 2
    /\ CASE op = "mm" ->
              out # None => out.shape = <<X1.shape[1], X2.shape[1]>>
         [] op = "mmv" ->
              /\ Dim(v) \in {1, 2}
              /\ out # None => out.shape = <<X1.shape[1], ColShape(v)[2]>>
              /\ ColShape(v)[1] = X2.shape[1]
         [] op = "dmmv" ->
              /\ v # None \/ w # None
              /\ DmmvShapesAccepted

\* The errors of the validation phase.
ShapeErrors ==
    {"X1.dim", "X2.dim", "v.dim", "w.dim", "out.shape", "v.shape", "w.shape"}

IsSparsityError == last.exc = "ValueError" /\ last.msg = "sparsity"

\* The backend of each operation family, by device and sparsity.
BackendOf(op, gpu, sparse) ==
    CASE op = "mm" ->
           IF gpu THEN (IF sparse THEN "fmm_cuda_sparse" ELSE "fmm_cuda")
           ELSE (IF sparse THEN "fmm_cpu_sparse" ELSE "fmm_cpu")
      [] op = "mmv" ->
           IF gpu THEN (IF sparse THEN "fmmv_cuda_sparse" ELSE "fmmv_cuda")
           ELSE (IF sparse THEN "fmmv_cpu_sparse" ELSE "fmmv_cpu")
      [] op = "dmmv" ->
           IF gpu THEN (IF sparse THEN "fdmmv_cuda_sparse" ELSE "fdmmv_cuda")
           ELSE (IF sparse THEN "fdmmv_cpu_sparse" ELSE "fdmmv_cpu")

\* The name each resolver's warning gives the operation.
WarningName(op) ==
    CASE op = "mm" -> "kernel"
      [] op = "mmv" -> "kernel-vector product"
      [] op = "dmmv" -> "kernel-vector double product"

\* The backend resolution of the last call has run.
ResolverRan ==
    /\ last.op \in PublicOps
    /\ last.checks # <<>>
    /\ last.checks[Len(last.checks)] = "sparsity"

(***************************************************************************)
(* Properties of the public operations, checked under Spec.                *)
(***************************************************************************)
\* C2 as stated: with exactly one of X1, X2 sparse, mm, mmv and dmmv fail with
\* the sparsity-inconsistency error whatever the other arguments are.
C2_AsStated ==
    (last.op \in PublicOps /\ SparsityMismatch) => IsSparsityError

\* C2 amended: with exactly one of X1, X2 sparse, mm, mmv and dmmv fail and
\* invoke no backend; the error is the sparsity-inconsistency error exactly when
\* the shape and type validation and the same-device check pass, and otherwise
\* it is the error of the validation or device check that fails first.
C2_FailsAfterValidation ==
    (last.op \in PublicOps /\ SparsityMismatch) =>
        /\ last.exc # "none"
        /\ last.backend = <<>>
        /\ IsSparsityError <=>
              (ShapesValid(last.op) /\ OneDType(last.op) /\ OneDevice(last.op))
        /\ ~ShapesValid(last.op) =>
              /\ last.exc = "ValueError"
              /\ last.msg \in ShapeErrors \cup {"v_or_w"}
        /\ (ShapesValid(last.op) /\ ~OneDType(last.op)) =>
              last.exc = "TypeError"
        /\ (ShapesValid(last.op) /\ OneDType(last.op) /\ ~OneDevice(last.op)) =>
              last.exc = "RuntimeError"

\* A call with valid operands on one device has failed on the sparsity test.
C2_Witness ==
    /\ last.op = "mmv"
    /\ SparsityMismatch
    /\ ShapesValid("mmv") /\ OneDType("mmv") /\ OneDevice("mmv")
    /\ IsSparsityError

\* C3: a call of mm, mmv or dmmv that ends in a validation error has invoked no
\* backend and written no output buffer; a backend is invoked only when the
\* shape and type check, the same-device check and the sparsity check have all
\* passed, and at most one backend is invoked per call.
C3_FailFast ==
    last.op \in PublicOps =>
        /\ last.exc \in {"none", "ValueError", "TypeError", "RuntimeError"}
        /\ last.exc # "none" => (last.backend = <<>> /\ last.ret = None)
        /\ last.backend # <<>> =>
              /\ last.exc = "none"
              /\ ShapesValid(last.op)
              /\ OneDType(last.op)
              /\ OneDevice(last.op)
              /\ ~SparsityMismatch
              /\ \E i, j, k \in 1..Len(last.checks) :
                    /\ i < j /\ j < k
                    /\ last.checks[i] = "dtype"
                    /\ last.checks[j] = "device"
                    /\ last.checks[k] = "sparsity"
        /\ Len(last.backend) <= 1

\* A call given an output buffer has ended in the device-mismatch error.
C3_Witness ==
    /\ last.op \in PublicOps
    /\ out # None
    /\ last.exc = "RuntimeError"
    /\ last.backend = <<>>

\* C4 as stated: when the resolver runs with X1 or X2 on a GPU and the policy
\* preferring the CPU, it warns, naming the operation, and returns the GPU
\* backend; no CPU backend is selected with an operand on a GPU, and the
\* warning is emitted only on that override.
C4_AsStated ==
    ResolverRan =>
        /\ ((X1.device = "cuda" \/ X2.device = "cuda") /\ ~decide_cuda(last.params)) =>
              /\ last.warnings = <<WarningName(last.op)>>
              /\ Len(last.backend) = 1
              /\ last.backend[1].fn \in {BackendOf(last.op, TRUE, TRUE),
                                         BackendOf(last.op, TRUE, FALSE)}
        /\ last.backend # <<>> =>
              (last.backend[1].fn \in {BackendOf(last.op, FALSE, TRUE),
                                       BackendOf(last.op, FALSE, FALSE)}
                  => (X1.device # "cuda" /\ X2.device # "cuda"))
        /\ last.warnings # <<>> =>
              ((X1.device = "cuda" \/ X2.device = "cuda") /\ ~decide_cuda(last.params))

\* C4 amended: the same for X1 and X2 that agree in sparsity (sparse or dense
\* according to them); when exactly one of them is sparse the resolver raises
\* the sparsity-inconsistency error, warns of nothing and returns no backend.
C4_OverrideGivenSparsityAgrees ==
    ResolverRan =>
        /\ (~SparsityMismatch /\ (X1.device = "cuda" \/ X2.device = "cuda")
               /\ ~decide_cuda(last.params)) =>
              /\ last.warnings = <<WarningName(last.op)>>
              /\ Len(last.backend) = 1
              /\ last.backend[1].fn =
                     BackendOf(last.op, TRUE, X1.cls = "SparseTensor")
        /\ last.backend # <<>> =>
              /\ last.backend[1].fn =
                     BackendOf(last.op,
                               decide_cuda(last.params) \/ X1.device = "cuda",
                               X1.cls = "SparseTensor")
              /\ last.backend[1].fn \in {BackendOf(last.op, FALSE, TRUE),
                                         BackendOf(last.op, FALSE, FALSE)}
                    => (X1.device # "cuda" /\ X2.device # "cuda")
        /\ last.warnings # <<>> =>
              /\ (X1.device = "cuda" \/ X2.device = "cuda")
              /\ ~decide_cuda(last.params)
              /\ last.backend # <<>>
        /\ SparsityMismatch => (IsSparsityError /\ last.warnings = <<>>)

\* mmv has overridden a CPU policy for sparse operands on a GPU.
C4_Witness ==
    /\ last.op = "mmv"
    /\ X1.device = "cuda" /\ X1.cls = "SparseTensor"
    /\ last.backend # <<>>
    /\ last.params.use_cpu
    /\ last.warnings = <<"kernel-vector product">>
    /\ last.backend[1].fn = "fmmv_cuda_sparse"

\* C6: dmmv with neither v nor w fails with the "One of v and w must be
\* specified" error whatever X1, X2 and out are, before any rank, shape, type,
\* device or sparsity check is evaluated and without invoking a backend.
C6_PresenceFirst ==
    (last.op = "dmmv" /\ v = None /\ w = None) =>
        /\ last.exc = "ValueError" /\ last.msg = "v_or_w"
        /\ last.checks = <<"v_or_w">>
        /\ last.backend = <<>>

\* dmmv without v and w has failed on operands that no later check would accept.
C6_Witness ==
    /\ last.op = "dmmv"
    /\ v = None /\ w = None
    /\ Dim(X1) # 2 /\ SparsityMismatch /\ ~OneDType("dmmv")
    /\ last.msg = "v_or_w"

\* C7: no call of mm, mmv or dmmv, with or without opt, succeeding or failing,
\* changes a field of the kernel's default policy or of the caller's opt
\* record, and a call without opt that reaches the merge uses that default.
C7_PoliciesNotMutated ==
    [][/\ selfParams' = selfParams
       /\ opt' = opt
       /\ (last'.op \in PublicOps /\ ~last'.opt_passed /\ last'.params # None)
             => last'.params = selfParams]_vars

\* A call has run under an override that differs from the kernel's default.
C7_Witness ==
    /\ last.op \in PublicOps
    /\ last.opt_passed
    /\ last.params # None
    /\ last.params # selfParams
    /\ last.backend # <<>>

\* C10: the policy a call selects its backend with and hands to it is the
\* kernel's default when opt is None and, when opt is given, agrees with opt on
\* every field, also on those opt holds at their default values.
C10_MergeTakesEveryField ==
    (last.op \in PublicOps /\ last.params # None) =>
        /\ ~last.opt_passed => last.params = selfParams
        /\ last.opt_passed =>
              /\ DOMAIN last.params = DOMAIN opt
              /\ \A f \in DOMAIN opt : last.params[f] = opt[f]
        /\ last.backend # <<>> =>
              /\ last.backend[1].opt =
                     (IF last.opt_passed THEN opt ELSE selfParams)
              /\ last.backend[1].fn =
                     BackendOf(last.op,
                               ~(IF last.opt_passed THEN opt ELSE selfParams).use_cpu
                                   \/ X1.device = "cuda",
                               X1.cls = "SparseTensor")

\* A backend has run under an opt that differs from the default on every field.
C10_Witness ==
    /\ last.op \in PublicOps
    /\ last.opt_passed
    /\ last.backend # <<>>
    /\ \A f \in DOMAIN opt : opt[f] # selfParams[f]
    /\ opt.keops_active = "auto"

(***************************************************************************)
(* Properties of Kernel._check_dmmv_dimensions, checked under SpecShapes.  *)
(***************************************************************************)
\* C8: for X1, X2 of rank 2 and v or w given, _check_dmmv_dimensions turns a
\* rank-1 v or w into a single column, rejects a v or w of any other rank than
\* 1 or 2, takes T from v when v is given and from w otherwise, and raises a
\* shape error (ValueError) unless out, if given, is (rows(X2), T), v, if given,
\* is (rows(X2), T) and w, if given, is (rows(X1), T); v and w with different
\* column counts are rejected.
C8_DmmvShapes ==
    (/\ last.op = "_check_dmmv_dimensions"
     /\ v # None \/ w # None
     /\ Dim(X1) = 2 /\ Dim(X2) = 2) =>
        /\ last.exc \in {"none", "ValueError", "TypeError"}
        /\ last.exc = "ValueError" <=> ~DmmvShapesAccepted
        /\ last.exc = "ValueError" => last.msg \in ShapeErrors
        /\ ~VecRankOK(v) => last.msg = "v.dim"
        /\ (VecRankOK(v) /\ ~VecRankOK(w)) => last.msg = "w.dim"
        /\ (/\ v # None /\ w # None
            /\ VecRankOK(v) /\ VecRankOK(w)
            /\ ColShape(v)[2] # ColShape(w)[2]) => last.exc = "ValueError"
        /\ last.exc = "none" =>
              /\ last.args[1] = X1 /\ last.args[2] = X2 /\ last.args[5] = out
              /\ last.args[3] =
                     (IF v = None THEN None ELSE [v EXCEPT !.shape = ColShape(v)])
              /\ last.args[4] =
                     (IF w = None THEN None ELSE [w EXCEPT !.shape = ColShape(w)])

\* The validator has accepted a rank-1 v with a w and an output buffer.
C8_Witness ==
    /\ last.op = "_check_dmmv_dimensions"
    /\ v # None /\ Dim(v) = 1 /\ v.shape[1] > 1
    /\ w # None /\ out # None
    /\ last.exc = "none"

====
